---- MODULE Spec2Model ----
(***************************************************************************)
(* Model of the GCSafepoint function pass (src/src/llvm-gc-safepoint.cpp). *)
(*                                                                         *)
(* A function is a sequence of basic blocks, block 1 being the entry       *)
(* block; a basic block is a sequence of instructions ending in a          *)
(* terminator that names the successor blocks.  An instruction is a record *)
(*   [kind, id, base, off, succ]                                           *)
(* where id is the identity of the instruction object (a pair              *)
(* <<function, number>>), base is the instruction its pointer operand      *)
(* refers to, off the constant index of a getelementptr and succ the       *)
(* successor list of a terminator.                                         *)
(***************************************************************************)
EXTENDS Integers, Sequences, FiniteSets, TLC

VARIABLES F, F0, LI, fid, nextId, pgcstack, B, pc, work, wi, runs

vars == <<F, F0, LI, fid, nextId, pgcstack, B, pc, work, wi, runs>>

(* Bounds of the model. *)
MaxBlocks == 3
MaxEdges == 4
EntryBody == 1
MaxRuns == 2

NULL == <<>>

nthfield == "offsetof(jl_tls_states_t, safepoint) / sizeof(void *)"

Instr(kind, id, base, off, succ) ==
    [kind |-> kind, id |-> id, base |-> base, off |-> off, succ |-> succ]

(***************************************************************************)
(* Control-flow graph and the loop analysis the pass consumes.             *)
(***************************************************************************)
getEntryBlock == 1

getTerminator(f, b) == f[b][Len(f[b])]

successors(f, b) == getTerminator(f, b).succ

RECURSIVE PredsFrom(_, _, _)
PredsFrom(f, h, b) ==
    IF b > Len(f) THEN <<>>
    ELSE LET IsH(s) == s = h
             k == Len(SelectSeq(successors(f, b), IsH))
         IN  [i \in 1..k |-> b] \o PredsFrom(f, h, b + 1)

(* children<Inverse<BasicBlock *>>(Header): one entry per incoming edge,  *)
(* so a block with two edges to Header is listed twice.                    *)
predecessors(f, h) == PredsFrom(f, h, 1)

Range(s) == {s[i] : i \in 1..Len(s)}

RECURSIVE ReachFrom(_, _, _)
ReachFrom(f, S, avoid) ==
    LET N == (S \cup UNION {Range(successors(f, s)) : s \in S}) \ avoid
    IN  IF N = S THEN S ELSE ReachFrom(f, N, avoid)

isReachableFromEntry(f, b) == b \in ReachFrom(f, {getEntryBlock}, {})

(* Block d dominates block b: every path from the entry to b goes through d. *)
dominates(f, d, b) ==
    \/ d = b
    \/ b \notin ReachFrom(f, {getEntryBlock} \ {d}, {d})

RECURSIVE BackReach(_, _, _)
BackReach(f, S, h) ==
    LET N == S \cup {p \in 1..Len(f) :
                       /\ p # h
                       /\ isReachableFromEntry(f, p)
                       /\ \E s \in S \ {h} : s \in Range(successors(f, p))}
    IN  IF N = S THEN S ELSE BackReach(f, N, h)

Latches(f, h) ==
    {p \in Range(predecessors(f, h)) :
        isReachableFromEntry(f, p) /\ dominates(f, h, p)}

(* LoopInfo: one natural loop per header that dominates one of its        *)
(* predecessors; its blocks are the header and the blocks that reach a     *)
(* latch without passing the header.                                       *)
LoopInfoOf(f) ==
    {[header |-> h, blocks |-> BackReach(f, {h} \cup Latches(f, h), h)] :
        h \in {x \in 1..Len(f) : Latches(f, x) # {}}}

MinHeader(Ls) == CHOOSE L \in Ls : \A K \in Ls : L.header <= K.header

RECURSIVE Preorder(_)
Preorder(Ls) ==
    IF Ls = {} THEN <<>>
    ELSE LET Top  == {L \in Ls : \A K \in Ls : ~(L # K /\ L.blocks \subseteq K.blocks)}
             L    == MinHeader(Top)
             Subs == {K \in Ls : K # L /\ K.blocks \subseteq L.blocks}
         IN  <<L>> \o Preorder(Subs) \o Preorder((Ls \ Subs) \ {L})

getLoopsInPreorder(li) == Preorder(li)

RECURSIVE OncePerBlock(_, _)
OncePerBlock(P, seen) ==
    IF P = <<>> THEN <<>>
    ELSE IF Head(P) \in seen THEN OncePerBlock(Tail(P), seen)
    ELSE <<Head(P)>> \o OncePerBlock(Tail(P), seen \cup {Head(P)})

(* As LoopEdges, but a source block is visited once however many edges it *)
(* has to the header.                                                      *)
LoopEdgesOnce(f, L) ==
    LET P == OncePerBlock(predecessors(f, L.header), {})
    IN  [i \in 1..Len(P) |-> [loop |-> L, edge |-> P[i]]]

(* The incoming edges of the header of loop L, in iteration order. *)
LoopEdges(f, L) ==
    LET P == predecessors(f, L.header)
    IN  [i \in 1..Len(P) |-> [loop |-> L, edge |-> P[i]]]

(* The iterations of the two nested for loops of runOnFunction. *)
RECURSIVE EdgeWork(_, _)
EdgeWork(f, loops) ==
    IF loops = <<>> THEN <<>>
    ELSE LoopEdges(f, Head(loops)) \o EdgeWork(f, Tail(loops))

(***************************************************************************)
(* Instruction lists and the IRBuilder.                                    *)
(***************************************************************************)
BlockOf(f, id) == CHOOSE b \in 1..Len(f) : \E i \in 1..Len(f[b]) : f[b][i].id = id

IndexOf(f, id) ==
    LET b == BlockOf(f, id) IN CHOOSE i \in 1..Len(f[b]) : f[b][i].id = id

Contains(f, id) == \E b \in 1..Len(f) : \E i \in 1..Len(f[b]) : f[b][i].id = id

getFirstNonPHI(f, b) ==
    LET i == CHOOSE k \in 1..Len(f[b]) :
                 /\ f[b][k].kind # "phi"
                 /\ \A j \in 1..(k - 1) : f[b][j].kind = "phi"
    IN  f[b][i].id

(* As getNextNode, but yields the instruction itself. *)
getNextNodeSame(f, id) == id

getNextNode(f, id) ==
    LET b == BlockOf(f, id)
        i == IndexOf(f, id)
    IN  IF i < Len(f[b]) THEN f[b][i + 1].id ELSE NULL

(* As Insert, but the new instruction goes after the insertion point. *)
InsertAfter(f, cursor, ins) ==
    LET b == BlockOf(f, cursor)
        i == IndexOf(f, cursor)
    IN  [f EXCEPT ![b] = SubSeq(f[b], 1, i) \o <<ins>> \o SubSeq(f[b], i + 1, Len(f[b]))]

(* An IRBuilder Create* call: the new instruction goes immediately before *)
(* the insertion point, which stays where it is.                           *)
Insert(f, cursor, ins) ==
    LET b == BlockOf(f, cursor)
        i == IndexOf(f, cursor)
    IN  [f EXCEPT ![b] = SubSeq(f[b], 1, i - 1) \o <<ins>> \o SubSeq(f[b], i, Len(f[b]))]

(* The first handle-establishing call of the function, or NULL. *)
getPGCstack(f) ==
    IF \E b \in 1..Len(f) : \E i \in 1..Len(f[b]) : f[b][i].kind = "call getPGCStack"
    THEN LET b == CHOOSE x \in 1..Len(f) :
                      /\ \E i \in 1..Len(f[x]) : f[x][i].kind = "call getPGCStack"
                      /\ \A y \in 1..(x - 1) : \A i \in 1..Len(f[y]) :
                             f[y][i].kind # "call getPGCStack"
             i == CHOOSE k \in 1..Len(f[b]) :
                      /\ f[b][k].kind = "call getPGCStack"
                      /\ \A j \in 1..(k - 1) : f[b][j].kind # "call getPGCStack"
         IN  f[b][i].id
    ELSE NULL

(* getCurrentSignalPage: getelementptr, bitcast and load of the page      *)
(* pointer; the value returned is the load (instruction number n + 2).     *)
getCurrentSignalPage(f, cursor, pg, fn, n) ==
    LET f1 == Insert(f,  cursor, Instr("getelementptr", <<fn, n>>, pg, nthfield, <<>>))
        f2 == Insert(f1, cursor, Instr("bitcast", <<fn, n + 1>>, <<fn, n>>, "", <<>>))
    IN  Insert(f2, cursor, Instr("load", <<fn, n + 2>>, <<fn, n + 1>>, "", <<>>))

SafepointLen == 7

(* As emitGCSafepoint, without the fence that closes the sequence. *)
emitNoClosingFence(f, cursor, pg, fn, n) ==
    LET f1 == Insert(f,  cursor, Instr("call GCRootFlush", <<fn, n>>, NULL, "", <<>>))
        f2 == Insert(f1, cursor, Instr("fence singlethread seq_cst", <<fn, n + 1>>, NULL, "", <<>>))
        f3 == getCurrentSignalPage(f2, cursor, pg, fn, n + 2)
    IN  Insert(f3, cursor, Instr("load volatile", <<fn, n + 5>>, <<fn, n + 4>>, "", <<>>))

emitGCSafepoint(f, cursor, pg, fn, n) ==
    LET f1 == Insert(f,  cursor, Instr("call GCRootFlush", <<fn, n>>, NULL, "", <<>>))
        f2 == Insert(f1, cursor, Instr("fence singlethread seq_cst", <<fn, n + 1>>, NULL, "", <<>>))
        f3 == getCurrentSignalPage(f2, cursor, pg, fn, n + 2)
        f4 == Insert(f3, cursor, Instr("load volatile", <<fn, n + 5>>, <<fn, n + 4>>, "", <<>>))
    IN  Insert(f4, cursor, Instr("fence singlethread seq_cst", <<fn, n + 6>>, NULL, "", <<>>))

(***************************************************************************)
(* The functions the pass is run on.                                       *)
(***************************************************************************)
Stride == EntryBody + 2

(* Terminators: ret (no successor), br (one), conditional br (two).  The  *)
(* entry block has no predecessor.                                         *)
TermChoices(n) ==
    {<<>>} \cup {<<a>> : a \in 2..n} \cup {<<a, b>> : a \in 2..n, b \in 2..n}

RECURSIVE Flatten(_, _)
Flatten(succ, b) ==
    IF b > Len(succ) THEN <<>> ELSE succ[b] \o Flatten(succ, b + 1)

FirstAt(s, k) == CHOOSE i \in 1..Len(s) : s[i] = k /\ \A j \in 1..(i - 1) : s[j] # k

(* Blocks are numbered in the order a breadth-first walk from the entry   *)
(* first meets them, and the graph has at most MaxEdges edges.             *)
Numbered(succ) ==
    LET s == Flatten(succ, 1)
    IN  /\ Len(s) <= MaxEdges
        /\ \A k \in 2..Len(succ) : k \in Range(s)
        /\ \A k \in 2..(Len(succ) - 1) : FirstAt(s, k) < FirstAt(s, k + 1)

EntryKinds(h) ==
    [i \in 1..(EntryBody + (IF h = 0 THEN 0 ELSE 1)) |->
        IF i = h THEN "call getPGCStack" ELSE "other"]

MkBlock(fn, b, kinds, succ) ==
    [i \in 1..(Len(kinds) + 1) |->
        IF i <= Len(kinds)
        THEN Instr(kinds[i], <<fn, (b - 1) * Stride + i>>, NULL, "", <<>>)
        ELSE Instr("br", <<fn, (b - 1) * Stride + i>>, NULL, "", succ)]

MkFunction(fn, succ, h) ==
    [b \in 1..Len(succ) |->
        MkBlock(fn, b, IF b = getEntryBlock THEN EntryKinds(h) ELSE <<"other">>, succ[b])]

Graphs ==
    (* every block is reachable from the entry block *)
    UNION {{succ \in [1..n -> TermChoices(n)] :
               /\ Numbered(succ)
               /\ \A b \in 1..n : b \in ReachFrom(
                      [x \in 1..n |-> <<[succ |-> succ[x]]>>], {getEntryBlock}, {})} :
           n \in 1..MaxBlocks}

Functions(fn) ==
    {MkFunction(fn, succ, h) : succ \in Graphs, h \in 0..(EntryBody + 1)}

(***************************************************************************)
(* The pass.                                                               *)
(***************************************************************************)
(* The pgcstack member is not initialised by the constructor. *)
Init ==
    /\ F = <<>>
    /\ F0 = <<>>
    /\ LI = {}
    /\ fid = 0
    /\ nextId = 0
    /\ pgcstack \in {NULL, <<0, 0>>}
    /\ B = NULL
    /\ pc = "idle"
    /\ work = <<>>
    /\ wi = 1
    /\ runs = 0

(* The pass manager computes the required LoopInfo of a function and runs *)
(* the pass on it.                                                         *)
NextFunction ==
    /\ pc = "idle"
    /\ runs < MaxRuns
    /\ \E f \in Functions(fid + 1) :
          /\ F' = f
          /\ F0' = f
          /\ LI' = LoopInfoOf(f)
          /\ nextId' = Len(f) * Stride + 1
    /\ fid' = fid + 1
    /\ runs' = runs + 1
    /\ pc' = "begin"
    /\ B' = NULL
    /\ work' = <<>>
    /\ wi' = 1
    /\ UNCHANGED pgcstack

(* As Begin, but the handle-establishing call is created even when the     *)
(* function has one.                                                       *)
BeginAlwaysCreates ==
    /\ pc = "begin"
    /\ LET b0 == getFirstNonPHI(F, getEntryBlock)
       IN  /\ F' = Insert(F, b0, Instr("call getPGCStack", <<fid, nextId>>, NULL, "", <<>>))
           /\ pgcstack' = <<fid, nextId>>
           /\ nextId' = nextId + 1
           /\ B' = getNextNode(F', <<fid, nextId>>)
    /\ pc' = "entry"
    /\ UNCHANGED <<F0, LI, fid, work, wi, runs>>

(* As Begin, but the pgcstack member is only set while it is null. *)
BeginKeepsMember ==
    /\ pc = "begin"
    /\ LET b0 == getFirstNonPHI(F, getEntryBlock)
           pg == getPGCstack(F)
       IN  IF pg = NULL
           THEN /\ F' = Insert(F, b0, Instr("call getPGCStack", <<fid, nextId>>, NULL, "", <<>>))
                /\ pgcstack' = IF pgcstack = NULL THEN <<fid, nextId>> ELSE pgcstack
                /\ nextId' = nextId + 1
                /\ B' = getNextNode(F', <<fid, nextId>>)
           ELSE /\ pgcstack' = IF pgcstack = NULL THEN pg ELSE pgcstack
                /\ B' = getNextNode(F, pg)
                /\ UNCHANGED <<F, nextId>>
    /\ pc' = "entry"
    /\ UNCHANGED <<F0, LI, fid, work, wi, runs>>

(* As Begin, but the insertion point is not moved behind the handle. *)
BeginNoSetInsertPoint ==
    /\ pc = "begin"
    /\ LET b0 == getFirstNonPHI(F, getEntryBlock)
           pg == getPGCstack(F)
       IN  IF pg = NULL
           THEN /\ F' = Insert(F, b0, Instr("call getPGCStack", <<fid, nextId>>, NULL, "", <<>>))
                /\ pgcstack' = <<fid, nextId>>
                /\ nextId' = nextId + 1
                /\ B' = b0
           ELSE /\ pgcstack' = pg
                /\ B' = b0
                /\ UNCHANGED <<F, nextId>>
    /\ pc' = "entry"
    /\ UNCHANGED <<F0, LI, fid, work, wi, runs>>

(* runOnFunction, lines 72-81. *)
Begin ==
    /\ pc = "begin"
    /\ LET b0 == getFirstNonPHI(F, getEntryBlock)
           pg == getPGCstack(F)
       IN  IF pg = NULL
           THEN /\ F' = Insert(F, b0, Instr("call getPGCStack", <<fid, nextId>>, NULL, "", <<>>))
                /\ pgcstack' = <<fid, nextId>>
                /\ nextId' = nextId + 1
                /\ B' = getNextNode(F', <<fid, nextId>>)
           ELSE /\ pgcstack' = pg
                /\ B' = getNextNode(F, pg)
                /\ UNCHANGED <<F, nextId>>
    /\ pc' = "entry"
    /\ UNCHANGED <<F0, LI, fid, work, wi, runs>>

(* runOnFunction, lines 84-87: the entry safepoint, then the loops. *)
EmitEntry ==
    /\ pc = "entry"
    /\ F' = emitGCSafepoint(F, B, pgcstack, fid, nextId)
    /\ nextId' = nextId + SafepointLen
    /\ work' = EdgeWork(F, getLoopsInPreorder(LI))
    /\ wi' = 1
    /\ pc' = "loops"
    /\ UNCHANGED <<F0, LI, fid, pgcstack, B, runs>>

(* runOnFunction, lines 90-92: an incoming edge from outside the loop. *)
SkipEdge ==
    /\ pc = "loops"
    /\ wi <= Len(work)
    /\ work[wi].edge \notin work[wi].loop.blocks
    /\ wi' = wi + 1
    /\ UNCHANGED <<F, F0, LI, fid, nextId, pgcstack, B, pc, work, runs>>

(* As EmitBackedge, without the test that the source is in the loop. *)
EmitAnyEdge ==
    /\ pc = "loops"
    /\ wi <= Len(work)
    /\ B' = getTerminator(F, work[wi].edge).id
    /\ F' = emitGCSafepoint(F, B', pgcstack, fid, nextId)
    /\ nextId' = nextId + SafepointLen
    /\ wi' = wi + 1
    /\ UNCHANGED <<F0, LI, fid, pgcstack, pc, work, runs>>

(* As EmitBackedge, but a block that already ends in a fence gets no      *)
(* further safepoint.                                                      *)
EmitBackedgeOnce ==
    /\ pc = "loops"
    /\ wi <= Len(work)
    /\ work[wi].edge \in work[wi].loop.blocks
    /\ B' = getTerminator(F, work[wi].edge).id
    /\ LET blk == F[work[wi].edge]
       IN  IF Len(blk) > 1 /\ blk[Len(blk) - 1].kind = "fence singlethread seq_cst"
           THEN UNCHANGED <<F, nextId>>
           ELSE /\ F' = emitGCSafepoint(F, B', pgcstack, fid, nextId)
                /\ nextId' = nextId + SafepointLen
    /\ wi' = wi + 1
    /\ UNCHANGED <<F0, LI, fid, pgcstack, pc, work, runs>>

(* runOnFunction, lines 93-95: a backedge. *)
EmitBackedge ==
    /\ pc = "loops"
    /\ wi <= Len(work)
    /\ work[wi].edge \in work[wi].loop.blocks
    /\ B' = getTerminator(F, work[wi].edge).id
    /\ F' = emitGCSafepoint(F, B', pgcstack, fid, nextId)
    /\ nextId' = nextId + SafepointLen
    /\ wi' = wi + 1
    /\ UNCHANGED <<F0, LI, fid, pgcstack, pc, work, runs>>

(* runOnFunction, line 99. *)
Return ==
    /\ pc = "loops"
    /\ wi > Len(work)
    /\ pc' = "done"
    /\ UNCHANGED <<F, F0, LI, fid, nextId, pgcstack, B, work, wi, runs>>

(* The pass is run again on its own output; LoopInfo was declared         *)
(* preserved and is not recomputed.                                        *)
RunAgain ==
    /\ pc = "done"
    /\ runs < MaxRuns
    /\ F0' = F
    /\ runs' = runs + 1
    /\ pc' = "begin"
    /\ B' = NULL
    /\ work' = <<>>
    /\ wi' = 1
    /\ UNCHANGED <<F, LI, fid, nextId, pgcstack>>

(* The pass manager is done with the function; the pass object keeps its  *)
(* members.                                                                *)
Release ==
    /\ pc = "done"
    /\ runs < MaxRuns
    /\ F' = <<>>
    /\ F0' = <<>>
    /\ LI' = {}
    /\ B' = NULL
    /\ work' = <<>>
    /\ wi' = 1
    /\ nextId' = 0
    /\ pc' = "idle"
    /\ UNCHANGED <<fid, pgcstack, runs>>

Next ==
    \/ NextFunction
    \/ Begin
    \/ EmitEntry
    \/ SkipEdge
    \/ EmitBackedge
    \/ Return
    \/ RunAgain
    \/ Release

Spec == Init /\ [][Next]_vars

(***************************************************************************)
(* Vocabulary of the properties.                                           *)
(***************************************************************************)
SafepointKinds ==
    <<"call GCRootFlush", "fence singlethread seq_cst", "getelementptr", "bitcast",
      "load", "load volatile", "fence singlethread seq_cst">>

(* A safepoint sequence starts at instruction i of block b: the seven     *)
(* instructions of one emit, each address operand being the instruction   *)
(* before it.                                                              *)
IsSafepointAt(f, b, i) ==
    /\ i >= 1
    /\ i + 6 <= Len(f[b])
    /\ \A k \in 1..7 : f[b][i + k - 1].kind = SafepointKinds[k]
    /\ f[b][i + 2].off = nthfield
    /\ f[b][i + 3].base = f[b][i + 2].id
    /\ f[b][i + 4].base = f[b][i + 3].id
    /\ f[b][i + 5].base = f[b][i + 4].id

NumSafepointsIn(f, b) == Cardinality({i \in 1..Len(f[b]) : IsSafepointAt(f, b, i)})

CountKindIn(f, b, kinds) == Cardinality({i \in 1..Len(f[b]) : f[b][i].kind \in kinds})

RECURSIVE SumSeq(_)
SumSeq(s) == IF s = <<>> THEN 0 ELSE Head(s) + SumSeq(Tail(s))

NumSafepoints(f) == SumSeq([b \in 1..Len(f) |-> NumSafepointsIn(f, b)])

BlockLen(f, b) == Len(f[b])

TotalLen(f) == SumSeq([b \in 1..Len(f) |-> BlockLen(f, b)])

NumProbesIn(f, b) == CountKindIn(f, b, {"load volatile"})

NumProbes(f) == SumSeq([b \in 1..Len(f) |-> NumProbesIn(f, b)])

NumHandlesIn(f, b) == CountKindIn(f, b, {"call getPGCStack"})

NumHandles(f) == SumSeq([b \in 1..Len(f) |-> NumHandlesIn(f, b)])

NumEmittedKindsIn(f, b) == CountKindIn(f, b, Range(SafepointKinds))

HandleIndex(f) ==
    CHOOSE i \in 1..Len(f[getEntryBlock]) : f[getEntryBlock][i].kind = "call getPGCStack"

(* The instructions the function held when the current run began. *)
OldIds == UNION {{F0[b][i].id : i \in 1..Len(F0[b])} : b \in 1..Len(F0)}

IsNew(ins) == ~Contains(F0, ins.id)

(* The edges of the graph, one per successor slot of a terminator. *)
EdgeSlots(f) == UNION {{<<p, k>> : k \in 1..Len(successors(f, p))} : p \in 1..Len(f)}

(* The qualifying backedges: pairs of a loop and an incoming edge of its  *)
(* header whose source block is a member of the loop.                      *)
QualifyingEdges(f) ==
    {q \in LoopInfoOf(f) \X EdgeSlots(f) :
        /\ successors(f, q[2][1])[q[2][2]] = q[1].header
        /\ q[2][1] \in q[1].blocks}

BackedgesFrom(f, b) == Cardinality({q \in QualifyingEdges(f) : q[2][1] = b})

(* The calls of emitGCSafepoint made so far by the current run. *)
Emits ==
    (IF pc \in {"loops", "done"} THEN 1 ELSE 0)
        + Cardinality({k \in 1..(wi - 1) : work[k].edge \in work[k].loop.blocks})

Created == IF pc # "begin" /\ NumHandles(F0) = 0 THEN 1 ELSE 0

Running == F # <<>>

FirstRunDone == pc = "done" /\ NumSafepoints(F0) = 0

SecondRunDone == pc = "done" /\ NumSafepoints(F0) > 0

(* Instruction a is executed before instruction c on every path from the  *)
(* function entry to c.                                                    *)
InstrDominates(f, a, c) ==
    /\ Contains(f, a)
    /\ Contains(f, c)
    /\ IF BlockOf(f, a) = BlockOf(f, c)
       THEN IndexOf(f, a) < IndexOf(f, c)
       ELSE dominates(f, BlockOf(f, a), BlockOf(f, c))

ProbeBlocks(f) == {b \in 1..Len(f) : NumProbesIn(f, b) > 0}

(***************************************************************************)
(* C1: after runOnFunction every cycle of the control-flow graph passes   *)
(* through a block that holds a probe load: no block without a probe      *)
(* reaches itself through blocks without a probe.                          *)
(***************************************************************************)
C1_EveryCycleHasProbe ==
    pc = "done" =>
        \A b \in (1..Len(F)) \ ProbeBlocks(F) :
            b \notin ReachFrom(F, Range(successors(F, b)) \ ProbeBlocks(F), ProbeBlocks(F))

(***************************************************************************)
(* C2: one run on a function that holds no safepoint sequence leaves      *)
(* exactly 1 + M safepoint sequences (and as many probe loads), M being    *)
(* the number of qualifying backedges, parallel edges counted separately.  *)
(***************************************************************************)
C2_OnePlusM ==
    FirstRunDone =>
        /\ NumSafepoints(F) = 1 + Cardinality(QualifyingEdges(F0))
        /\ NumProbes(F) = 1 + Cardinality(QualifyingEdges(F0))
        /\ (LoopInfoOf(F0) = {} => NumSafepoints(F) = 1)

(* Two nested loops share one latch that closes both headers: 3 sequences. *)
C2_Witness ==
    /\ FirstRunDone
    /\ NumSafepoints(F) = 3
    /\ \E K \in LoopInfoOf(F0) : \E L \in LoopInfoOf(F0) :
          /\ K # L
          /\ L.blocks \subseteq K.blocks
          /\ \E p \in L.blocks : /\ K.header \in Range(successors(F0, p))
                                 /\ L.header \in Range(successors(F0, p))

(***************************************************************************)
(* C3: a block other than the entry block ends the run as its old         *)
(* instructions, then one safepoint sequence per qualifying edge leaving   *)
(* it, then its terminator; a block that is the source of no qualifying    *)
(* edge is unchanged, and the entry block gains exactly one sequence.      *)
(***************************************************************************)
C3_OnePerBackedge ==
    pc = "done" =>
        \A b \in 1..Len(F) :
            IF b = getEntryBlock
            THEN /\ BackedgesFrom(F0, b) = 0
                 /\ NumSafepointsIn(F, b) = NumSafepointsIn(F0, b) + 1
            ELSE LET k  == BackedgesFrom(F0, b)
                     n0 == Len(F0[b])
                 IN  /\ Len(F[b]) = n0 + 7 * k
                     /\ SubSeq(F[b], 1, n0 - 1) = SubSeq(F0[b], 1, n0 - 1)
                     /\ F[b][Len(F[b])] = F0[b][n0]
                     /\ \A j \in 0..(k - 1) :
                           /\ IsSafepointAt(F, b, n0 + 7 * j)
                           /\ \A m \in 0..6 : IsNew(F[b][n0 + 7 * j + m])

(* A latch with two qualifying edges, and a header entered from outside. *)
C3_Witness ==
    /\ pc = "done"
    /\ \E b \in 1..Len(F) : BackedgesFrom(F0, b) = 2
    /\ \E L \in LoopInfoOf(F0) : \E p \in Range(predecessors(F0, L.header)) :
          p \notin L.blocks

(***************************************************************************)
(* C4: a run puts exactly one safepoint sequence into the entry block; it *)
(* starts at the position right after the handle-establishing call, and    *)
(* everything before the handle was there before the run.                  *)
(***************************************************************************)
C4_EntryAfterHandle ==
    pc \in {"loops", "done"} =>
        /\ NumHandlesIn(F, getEntryBlock) = 1
        /\ LET h == HandleIndex(F)
           IN  /\ F[getEntryBlock][h].id = pgcstack
               /\ IsSafepointAt(F, getEntryBlock, h + 1)
               /\ \A m \in 1..7 : IsNew(F[getEntryBlock][h + m])
               /\ \A i \in 1..(h - 1) : ~IsNew(F[getEntryBlock][i])
        /\ NumSafepointsIn(F, getEntryBlock) = NumSafepointsIn(F0, getEntryBlock) + 1

(* The handle was in the middle of the entry block before the run. *)
C4_Witness ==
    /\ pc = "done"
    /\ NumSafepoints(F0) = 0
    /\ NumHandlesIn(F0, getEntryBlock) = 1
    /\ HandleIndex(F0) > 1

(***************************************************************************)
(* C5 as stated: every emit inserts exactly four instructions, root-flush *)
(* call, fence, volatile probe load, fence, contiguous.                    *)
(***************************************************************************)
C5_FourInstructions ==
    Running =>
        /\ TotalLen(F) = TotalLen(F0) + Created + 4 * Emits
        /\ \A b \in 1..Len(F) : \A i \in 1..Len(F[b]) :
              F[b][i].kind = "call GCRootFlush" =>
                  /\ i + 3 <= Len(F[b])
                  /\ F[b][i + 1].kind = "fence singlethread seq_cst"
                  /\ F[b][i + 2].kind = "load volatile"
                  /\ F[b][i + 3].kind = "fence singlethread seq_cst"

(***************************************************************************)
(* C5 amended: every emit inserts exactly seven instructions, root-flush  *)
(* call, fence, getelementptr, bitcast, load of the page pointer, volatile *)
(* probe load, fence; every root-flush call starts such a contiguous run   *)
(* and every emitted instruction lies in one.                              *)
(***************************************************************************)
C5_SevenInstructions ==
    Running =>
        /\ TotalLen(F) = TotalLen(F0) + Created + 7 * Emits
        /\ NumSafepoints(F) = NumSafepoints(F0) + Emits
        /\ \A b \in 1..Len(F) :
              /\ \A i \in 1..Len(F[b]) :
                    F[b][i].kind = "call GCRootFlush" => IsSafepointAt(F, b, i)
              /\ NumEmittedKindsIn(F, b) = 7 * NumSafepointsIn(F, b)

(* Two emits at the same cursor, the terminator of a shared latch. *)
C5_Witness ==
    /\ pc = "done"
    /\ \E b \in 1..Len(F) : NumSafepointsIn(F, b) - NumSafepointsIn(F0, b) = 2

(***************************************************************************)
(* C6: once a run has passed its first step the function holds exactly    *)
(* one handle-establishing call, in the entry block, and it is the one the *)
(* pass uses; it is new and the first instruction of the entry block if    *)
(* the function had none, and nothing but it has been inserted before the  *)
(* first safepoint is emitted.                                             *)
(***************************************************************************)
C6_OneHandle ==
    (Running /\ pc # "begin") =>
        /\ NumHandles(F) = 1
        /\ NumHandlesIn(F, getEntryBlock) = 1
        /\ F[getEntryBlock][HandleIndex(F)].id = pgcstack
        /\ NumHandles(F0) = 0 =>
              /\ HandleIndex(F) = 1
              /\ IsNew(F[getEntryBlock][1])
        /\ NumHandles(F0) = 1 =>
              /\ ~IsNew(F[getEntryBlock][HandleIndex(F)])
              /\ F[getEntryBlock][HandleIndex(F)] = F0[getEntryBlock][HandleIndex(F0)]
        /\ pc = "entry" => TotalLen(F) = TotalLen(F0) + Created

(* A second run on a function whose handle the first run created. *)
C6_Witness ==
    /\ pc = "done"
    /\ NumSafepoints(F0) > 0
    /\ NumHandles(F0) = 1
    /\ HandleIndex(F) = 1
    /\ F[getEntryBlock][1].id[2] > Len(F) * Stride

(***************************************************************************)
(* C7: a run on the output of an earlier run changes the function and     *)
(* raises the number of safepoint sequences; every block other than the    *)
(* entry block gains one per qualifying edge leaving it, the last of them  *)
(* ending right before the terminator.                                     *)
(***************************************************************************)
C7_NotIdempotent ==
    SecondRunDone =>
        /\ F # F0
        /\ NumSafepoints(F) > NumSafepoints(F0)
        /\ NumSafepoints(F) = NumSafepoints(F0) + 1 + Cardinality(QualifyingEdges(F0))
        /\ \A b \in (1..Len(F)) \ {getEntryBlock} :
              /\ NumSafepointsIn(F, b) = NumSafepointsIn(F0, b) + BackedgesFrom(F0, b)
              /\ BackedgesFrom(F0, b) > 0 =>
                    /\ IsSafepointAt(F, b, Len(F[b]) - 7)
                    /\ IsNew(F[b][Len(F[b]) - 1])

C7_Witness ==
    /\ SecondRunDone
    /\ Cardinality(QualifyingEdges(F0)) >= 1

(***************************************************************************)
(* C8: every getelementptr of a safepoint sequence has the function's own *)
(* handle-establishing call as base and the safepoint field index as       *)
(* offset, and every probe load reads through such a getelementptr.        *)
(***************************************************************************)
C8_OwnHandle ==
    Running =>
        \A b \in 1..Len(F) : \A i \in 1..Len(F[b]) :
            /\ F[b][i].kind = "getelementptr" =>
                  /\ F[b][i].off = nthfield
                  /\ \E j \in 1..Len(F[getEntryBlock]) :
                        /\ F[getEntryBlock][j].kind = "call getPGCStack"
                        /\ F[getEntryBlock][j].id = F[b][i].base
                  /\ \A c \in 1..Len(F) : \A k \in 1..Len(F[c]) :
                        F[c][k].kind = "getelementptr" => F[c][k].base = F[b][i].base
            /\ F[b][i].kind = "load volatile" => (i > 3 /\ IsSafepointAt(F, b, i - 5))

(* The second function of the pass instance, with several sites. *)
C8_Witness ==
    /\ pc = "done"
    /\ fid = 2
    /\ NumProbes(F) >= 2

(***************************************************************************)
(* C9: whenever emitGCSafepoint is about to be called, at the entry site  *)
(* or at a backedge site, the handle is non-null and dominates the cursor. *)
(***************************************************************************)
C9_HandleDominates ==
    /\ pc = "entry" => (pgcstack # NULL /\ InstrDominates(F, pgcstack, B))
    /\ (pc = "loops" /\ wi <= Len(work) /\ work[wi].edge \in work[wi].loop.blocks) =>
          /\ pgcstack # NULL
          /\ InstrDominates(F, pgcstack, getTerminator(F, work[wi].edge).id)

(* A backedge site of a function whose handle was in mid entry block. *)
C9_Witness ==
    /\ pc = "loops"
    /\ wi <= Len(work)
    /\ work[wi].edge \in work[wi].loop.blocks
    /\ NumHandlesIn(F0, getEntryBlock) = 1
    /\ HandleIndex(F0) > 1

(***************************************************************************)
(* C10: the pass only inserts: the blocks, every terminator with its      *)
(* successors, and the order of the old instructions are those of the      *)
(* function before the run, and the loop forest the analysis computed      *)
(* before the run is the loop forest of the output.                        *)
(***************************************************************************)
C10_OnlyInserts ==
    Running =>
        /\ Len(F) = Len(F0)
        /\ LET old == OldIds
               IsOld(ins) == ins.id \in old
           IN  \A b \in 1..Len(F) :
                  /\ getTerminator(F, b) = getTerminator(F0, b)
                  /\ SelectSeq(F[b], IsOld) = F0[b]
        /\ pc = "done" => LoopInfoOf(F) = LI

(* A second run, served by the preserved analysis, on a function with loops. *)
C10_Witness ==
    /\ SecondRunDone
    /\ LI # {}
    /\ TotalLen(F) > TotalLen(F0)

====
